---- MODULE Spec2Model ----
(***************************************************************************)
(* Model of parse_compareQUIC.py: two result-file parsers, the bucketing   *)
(* pass process_files, the statistics reducer calc_stats and main.         *)
(*                                                                         *)
(* Representation.                                                         *)
(*  - A file name is the sequence of its '_'-separated tokens              *)
(*    (filename.split('_')).  A token is a record: w is its text when it   *)
(*    is a word, d its decimal digits when it is numeric, ext a trailing   *)
(*    extension.  "x in filename" is containment of a token sequence.      *)
(*  - Throughput is an integer number of tenths of Mbps; seconds are       *)
(*    integers.  A JSON value is a tagged record [t, v].                   *)
(*  - A Python call that may raise returns [exc, val]: exc = "" on normal  *)
(*    return, otherwise the exception class; val is the value (or what     *)
(*    the local list held when the exception was raised).                  *)
(***************************************************************************)
EXTENDS Integers, Sequences, FiniteSets, TLC

VARIABLES stage, pc, listing, idx, ret, data, qperf_data, iperf_data,
          table, csv, log, exit_code,
          seconds_since_midnight, section, values, stats, filepath, parsed

vars == <<stage, pc, listing, idx, ret, data, qperf_data, iperf_data,
          table, csv, log, exit_code,
          seconds_since_midnight, section, values, stats, filepath, parsed>>

pipeline_vars == <<stage, pc, listing, idx, ret, data, qperf_data, iperf_data,
                   table, csv, log, exit_code>>

function_vars == <<seconds_since_midnight, section, values, stats, filepath, parsed>>

----------------------------------------------------------------------------
(* Bounds of the model *)

\* largest number of entries os.listdir returns for one directory
MaxFiles == 2
\* longest list handed to calc_stats on its own
MaxVals == 3
\* how far around each six-hour boundary get_time_section is probed
Delta == 61

----------------------------------------------------------------------------
(* Python values *)

None == [none |-> TRUE]

Ok(v) == [exc |-> "", val |-> v]
Raise(e, v) == [exc |-> e, val |-> v]

Num(n) == [t |-> "num", v |-> n]
Str(n) == [t |-> "str", v |-> n]
Absent == [t |-> "absent", v |-> 0]

W(s) == [w |-> s, d |-> <<>>, ext |-> ""]
Dt(digits) == [w |-> "", d |-> digits, ext |-> ""]
Tm(digits, e) == [w |-> "", d |-> digits, ext |-> e]

\* lines 14-19
TIME_SECTIONS ==
    << [label |-> "0h-5h59",   start |-> 0,         end |-> 5 * 3600 + 59 * 60],
       [label |-> "6h-11h59",  start |-> 6 * 3600,  end |-> 11 * 3600 + 59 * 60],
       [label |-> "12h-17h59", start |-> 12 * 3600, end |-> 17 * 3600 + 59 * 60],
       [label |-> "18h-23h59", start |-> 18 * 3600, end |-> 23 * 3600 + 59 * 60] >>

LABELS == { TIME_SECTIONS[i].label : i \in 1..Len(TIME_SECTIONS) }

\* the file_pattern arguments of main, lines 142-143
QPERF_PATTERN == <<"qperf", "throughput", "rtt">>
IPERF_PATTERN == <<"iperf3", "throughput">>

----------------------------------------------------------------------------
(* String and time helpers *)

\* pattern in filename: the words of pattern occur as consecutive tokens
Contains(filename, pattern) ==
    \E k \in 0..(Len(filename) - Len(pattern)) :
        \A j \in 1..Len(pattern) : filename[k + j].w = pattern[j]

\* token.replace(ext, '')
replace_ext(token, e) == IF token.ext = e THEN [token EXCEPT !.ext = ""] ELSE token

IsDigits(token, n) == token.w = "" /\ token.ext = "" /\ Len(token.d) = n

DaysIn(year, month) ==
    IF month = 2 THEN (IF year % 4 = 0 /\ (year % 100 # 0 \/ year % 400 = 0) THEN 29 ELSE 28)
    ELSE IF month \in {4, 6, 9, 11} THEN 30 ELSE 31

\* datetime.strptime(date + '_' + time, '%Y%m%d_%H%M%S') on an 8-digit and a
\* 6-digit token; anything left over, or a field out of range, is a ValueError
strptime(date, time) ==
    IF ~(IsDigits(date, 8) /\ IsDigits(time, 6)) THEN Raise("ValueError", None)
    ELSE LET dd == date.d
             td == time.d
             year   == dd[1] * 1000 + dd[2] * 100 + dd[3] * 10 + dd[4]
             month  == dd[5] * 10 + dd[6]
             day    == dd[7] * 10 + dd[8]
             hour   == td[1] * 10 + td[2]
             minute == td[3] * 10 + td[4]
             second == td[5] * 10 + td[6]
         IN  IF /\ year >= 1 /\ month \in 1..12 /\ day >= 1 /\ day <= DaysIn(year, month)
                /\ hour <= 23 /\ minute <= 59 /\ second <= 59
             THEN Ok([none |-> FALSE, year |-> year, month |-> month, day |-> day,
                      hour |-> hour, minute |-> minute, second |-> second])
             ELSE Raise("ValueError", None)

\* filename.split('_')[-2] + '_' + filename.split('_')[-1].replace(ext, ''),
\* then strptime (lines 27-28, 54-55, 60-61)
filename_time(filename, e) ==
    IF Len(filename) < 2 THEN Raise("IndexError", None)
    ELSE strptime(filename[Len(filename) - 1], replace_ext(filename[Len(filename)], e))

MONTHS == {"Jan", "Feb", "Mar", "Apr", "May", "Jun", "Jul", "Aug", "Sep", "Oct", "Nov", "Dec"}
WEEKDAYS == {"Mon", "Tue", "Wed", "Thu", "Fri", "Sat", "Sun"}

\* datetime.strptime(s, '%a, %d %b %Y %H:%M:%S GMT') on the embedded time
\* field (line 52); a string is the tuple of its fields, a non-string argument
\* is a TypeError
json_strptime(field) ==
    IF field.t # "str" THEN Raise("TypeError", None)
    ELSE LET s == field.v
         IN  IF /\ Len(s) = 8
                /\ s[1] \in WEEKDAYS /\ s[3] \in MONTHS /\ s[8] = "GMT"
                /\ s[2] \in 1..31 /\ s[4] >= 1
                /\ s[5] \in 0..23 /\ s[6] \in 0..59 /\ s[7] \in 0..59
             THEN Ok(s)
             ELSE Raise("ValueError", None)

\* float(match.group(2)) on a '[\d.]+' token given as its dot-separated digit
\* groups, in tenths: "50" and "50.5" convert, "1.2.3" is a ValueError
float(mbit) ==
    IF Len(mbit) = 1 THEN Ok(mbit[1] * 10)
    ELSE IF Len(mbit) = 2 /\ mbit[2] \in 0..9 THEN Ok(mbit[1] * 10 + mbit[2])
    ELSE Raise("ValueError", 0)

----------------------------------------------------------------------------
(* get_time_section, lines 72-77 *)

RECURSIVE scan_sections(_, _)
scan_sections(i, s) ==
    IF i > Len(TIME_SECTIONS) THEN "None"
    ELSE IF TIME_SECTIONS[i].start <= s /\ s <= TIME_SECTIONS[i].end
         THEN TIME_SECTIONS[i].label
         ELSE scan_sections(i + 1, s)

get_time_section(s) == scan_sections(1, s)

----------------------------------------------------------------------------
(* The parsers.  A file is [name, readable, content]; the result is          *)
(* [start_time, throughputs] as returned, with error the exception named in  *)
(* the printed diagnostic ("" when nothing was printed).                     *)

Sample(second, throughput) == [second |-> second, throughput |-> throughput]

Returned(start_time, throughputs) ==
    [start_time |-> start_time, throughputs |-> throughputs, error |-> ""]

\* an except clause that hands back the list as it stood when the error came
Sentinel_partial(e, throughputs) ==
    [start_time |-> None, throughputs |-> throughputs, error |-> e]

\* the except clauses at lines 38-40 and 68-70: print, return None, []
Sentinel(e, throughputs) ==
    [start_time |-> None, throughputs |-> <<>>, error |-> e]

\* lines 31-36: the loop over the lines of a qperf file
RECURSIVE qperf_lines(_, _, _)
qperf_lines(lines, i, throughputs) ==
    IF i > Len(lines) THEN Ok(throughputs)
    ELSE IF ~lines[i].match THEN qperf_lines(lines, i + 1, throughputs)
    ELSE LET throughput == float(lines[i].mbit)
         IN  IF throughput.exc # "" THEN Raise(throughput.exc, throughputs)
             ELSE qperf_lines(lines, i + 1,
                      Append(throughputs, Sample(Num(lines[i].second), throughput.val)))

\* lines 21-40
parse_qperf_file(file) ==
    LET start_time == filename_time(file.name, ".txt")
    IN  IF start_time.exc # "" THEN Sentinel(start_time.exc, <<>>)
        ELSE IF ~file.readable THEN Sentinel("OSError", <<>>)
        ELSE LET body == qperf_lines(file.content, 1, <<>>)
             IN  IF body.exc # "" THEN Sentinel(body.exc, body.val)
                 ELSE Returned(start_time.val, body.val)

\* lines 50-61: the inner try and its except (KeyError, ValueError) fallback
iperf_start_time(filename, content) ==
    LET json_time == IF content.time.t = "absent" THEN Raise("KeyError", None)
                     ELSE json_strptime(content.time)
        try == IF json_time.exc # "" THEN json_time
               ELSE filename_time(filename, ".json")
    IN  IF try.exc \in {"KeyError", "ValueError"}
        THEN filename_time(filename, ".json")
        ELSE try

\* lines 63-66: the loop over data['intervals']
RECURSIVE iperf_intervals(_, _, _)
iperf_intervals(intervals, i, throughputs) ==
    IF i > Len(intervals) THEN Ok(throughputs)
    ELSE LET second == intervals[i].start
             bps == intervals[i].bits_per_second
         IN  IF second.t = "absent" \/ bps.t = "absent" THEN Raise("KeyError", throughputs)
             ELSE IF bps.t # "num" THEN Raise("TypeError", throughputs)
             ELSE iperf_intervals(intervals, i + 1,
                      Append(throughputs, Sample(second, bps.v \div 100000)))

\* lines 42-70
parse_iperf_file(file) ==
    IF ~file.readable THEN Sentinel("OSError", <<>>)
    ELSE IF ~file.content.json THEN Sentinel("ValueError", <<>>)
    ELSE LET start_time == iperf_start_time(file.name, file.content)
         IN  IF start_time.exc # "" THEN Sentinel(start_time.exc, <<>>)
             ELSE IF file.content.intervals.t # "list" THEN Sentinel("KeyError", <<>>)
             ELSE LET body == iperf_intervals(file.content.intervals.v, 1, <<>>)
                  IN  IF body.exc # "" THEN Sentinel(body.exc, body.val)
                      ELSE Returned(start_time.val, body.val)

parse_func(tool, file) ==
    IF tool = "qperf" THEN parse_qperf_file(file) ELSE parse_iperf_file(file)

----------------------------------------------------------------------------
(* process_files, lines 79-102 *)

\* lines 81-84
EmptyData == [i \in {"wlan0", "wlan1"} |-> [l \in LABELS |-> <<>>]]

\* line 92 with wlan1 as the default interface
interface_of_default(filename) ==
    IF Contains(filename, <<"wlan0">>) THEN "wlan0" ELSE "wlan1"

\* line 92 with wlan1 checked before wlan0
interface_of_wlan1_first(filename) ==
    IF Contains(filename, <<"wlan1">>) THEN "wlan1"
    ELSE IF Contains(filename, <<"wlan0">>) THEN "wlan0"
    ELSE "None"

\* line 92
interface_of(filename) ==
    IF Contains(filename, <<"wlan0">>) THEN "wlan0"
    ELSE IF Contains(filename, <<"wlan1">>) THEN "wlan1"
    ELSE "None"

\* lines 96-98; adding a non-number to an int is a TypeError
seconds_of(start_time, second) ==
    IF second.t # "num" THEN Raise("TypeError", 0)
    ELSE Ok(start_time.hour * 3600 + start_time.minute * 60 + start_time.second + second.v)

\* lines 95-101 with the loop left at the first sample outside every section
RECURSIVE add_samples_break(_, _, _, _, _)
add_samples_break(d, interface, start_time, throughputs, i) ==
    IF i > Len(throughputs) THEN Ok(d)
    ELSE LET ssm == seconds_of(start_time, throughputs[i].second)
         IN  IF ssm.exc # "" THEN Raise(ssm.exc, d)
             ELSE LET sec == get_time_section(ssm.val)
                  IN  IF sec # "None"
                      THEN add_samples_break(
                             [d EXCEPT ![interface][sec] = Append(@, throughputs[i].throughput)],
                             interface, start_time, throughputs, i + 1)
                      ELSE Ok(d)

\* lines 95-101: the loop over the samples of one file
RECURSIVE add_samples(_, _, _, _, _)
add_samples(d, interface, start_time, throughputs, i) ==
    IF i > Len(throughputs) THEN Ok(d)
    ELSE LET ssm == seconds_of(start_time, throughputs[i].second)
         IN  IF ssm.exc # "" THEN Raise(ssm.exc, d)
             ELSE LET sec == get_time_section(ssm.val)
                  IN  IF sec # "None"
                      THEN add_samples(
                             [d EXCEPT ![interface][sec] = Append(@, throughputs[i].throughput)],
                             interface, start_time, throughputs, i + 1)
                      ELSE add_samples(d, interface, start_time, throughputs, i + 1)

\* lines 90-101: what one parsed file does to data
route_file(d, filename, r) ==
    IF r.start_time = None THEN Ok(d)
    ELSE IF interface_of(filename) = "None" THEN Ok(d)
    ELSE add_samples(d, interface_of(filename), r.start_time, r.throughputs, 1)

\* lines 86-101 for one directory entry
handle_file(d, tool, pattern, file) ==
    IF ~Contains(file.name, pattern) THEN Ok(d)
    ELSE route_file(d, file.name, parse_func(tool, file))

\* lines 86-102 for a whole listing
RECURSIVE process_listing(_, _, _, _, _)
process_listing(d, tool, pattern, files, i) ==
    IF i > Len(files) THEN Ok(d)
    ELSE LET step == handle_file(d, tool, pattern, files[i])
         IN  IF step.exc # "" THEN step
             ELSE process_listing(step.val, tool, pattern, files, i + 1)

----------------------------------------------------------------------------
(* calc_stats, lines 104-110.  values are tenths of Mbps; mean and stddev    *)
(* are carried in hundredths; a printed float is [whole, frac], its integer  *)
(* part and the digits after the point.                                      *)

RECURSIVE sum(_, _)
sum(vs, i) == IF i > Len(vs) THEN 0 ELSE vs[i] + sum(vs, i + 1)

RECURSIVE sum_sq(_, _)
sum_sq(vs, i) == IF i > Len(vs) THEN 0 ELSE vs[i] * vs[i] + sum_sq(vs, i + 1)

\* round(num / den) to the nearest integer, ties to even as round() does on
\* a binary float that holds the tie exactly
round_div(num, den) ==
    LET q == num \div den
        r == num % den
    IN  IF 2 * r < den THEN q
        ELSE IF 2 * r > den THEN q + 1
        ELSE IF q % 2 = 0 THEN q ELSE q + 1

\* floor of the square root, by bisection: lo * lo <= x < hi * hi
RECURSIVE isqrt(_, _, _)
isqrt(x, lo, hi) ==
    IF hi - lo <= 1 THEN lo
    ELSE LET mid == (lo + hi) \div 2
         IN  IF mid * mid <= x THEN isqrt(x, mid, hi) ELSE isqrt(x, lo, mid)

\* round(sqrt(num / den)) to the nearest integer
round_sqrt(num, den) ==
    LET q == num \div den
        r == num % den
        s == isqrt(q, 0, 46341)
        over == q - s * s - s
    IN  IF over >= 1 \/ (over = 0 /\ 4 * r >= den) THEN s + 1 ELSE s

\* str(round(x, 2)) of a float given in hundredths: the shortest decimal that
\* reads back, so at least one digit after the point and no trailing zero
str_round2(h) ==
    [whole |-> h \div 100,
     frac  |-> IF h % 10 = 0 THEN << (h % 100) \div 10 >>
               ELSE << (h % 100) \div 10, h % 10 >>]

\* statistics.pstdev in place of stdev: the n estimator
stdev_population(vs) ==
    LET n == Len(vs)
    IN  round_sqrt(100 * (n * sum_sq(vs, 1) - sum(vs, 1) * sum(vs, 1)), n * n)

\* statistics.stdev(values) in hundredths: the n-1 estimator
stdev(vs) ==
    LET n == Len(vs)
    IN  round_sqrt(100 * (n * sum_sq(vs, 1) - sum(vs, 1) * sum(vs, 1)), n * (n - 1))

\* the x ± y string, as the pair of its two printed numbers
calc_stats(vs) ==
    IF vs = <<>> THEN [mean |-> [whole |-> 0, frac |-> <<0>>],
                       stddev |-> [whole |-> 0, frac |-> <<0>>]]
    ELSE LET mean == round_div(10 * sum(vs, 1), Len(vs))
             stddev == IF Len(vs) > 1 THEN stdev(vs) ELSE 0
         IN  [mean |-> str_round2(mean), stddev |-> str_round2(stddev)]

\* lines 117-122 and 130-135: one row per time section, declared order
report_rows(qd, id) ==
    [k \in 1..Len(TIME_SECTIONS) |->
        LET l == TIME_SECTIONS[k].label
        IN  << l, calc_stats(qd["wlan0"][l]), calc_stats(qd["wlan1"][l]),
                  calc_stats(id["wlan0"][l]), calc_stats(id["wlan1"][l]) >>]

----------------------------------------------------------------------------
(* The files the model draws its inputs from *)

Words(ws) == [k \in 1..Len(ws) |-> W(ws[k])]

DATE == <<2, 0, 2, 5, 0, 6, 0, 5>>

\* <prefix>_<pattern>_<YYYYMMDD>_<HHMMSS><ext>
Name(prefix, pattern, time, e) ==
    Words(prefix) \o Words(pattern) \o << Dt(DATE), Tm(time, e) >>

File(name, readable, content) ==
    [name |-> name, readable |-> readable, content |-> content]

\* a line "second <second>: <mbit> mbit/s", and a line the pattern does not match
Line(second, mbit) == [match |-> TRUE, second |-> second, mbit |-> mbit]
Noise == [match |-> FALSE, second |-> 0, mbit |-> <<>>]

Interval(start, bps) == [start |-> start, bits_per_second |-> bps]
List(s) == [t |-> "list", v |-> s]
NoList == [t |-> "absent", v |-> <<>>]
Json(time, intervals) == [json |-> TRUE, time |-> time, intervals |-> intervals]
NotJson == [json |-> FALSE, time |-> [t |-> "absent", v |-> <<>>], intervals |-> NoList]

GoodTime == Str(<<"Thu", 5, "Jun", 2025, 0, 0, 0, "GMT">>)
BadTime  == Str(<<"Thu", 5, "Jun", 2025, 0, 0, 0, "UTC">>)
\* the embedded time field carries its value as a tuple, whatever its JSON type
NoTime   == [t |-> "absent", v |-> <<>>]
NumTime  == [t |-> "num", v |-> <<12345>>]

\* qperf result files
Q_example  == File(Name(<<"wlan0">>, QPERF_PATTERN, <<0,0,0,0,0,0>>, ".txt"), TRUE,
                   << Line(0, <<50, 0>>), Noise, Line(5, <<60, 0>>) >>)
Q_midnight == File(Name(<<"wlan1">>, QPERF_PATTERN, <<2,3,5,8,5,0>>, ".txt"), TRUE,
                   << Line(0, <<7, 5>>), Line(30, <<8, 0>>), Line(80, <<9>>) >>)
Q_both     == File(Name(<<"wlan0", "wlan1">>, QPERF_PATTERN, <<0,5,5,9,3,0>>, ".txt"), TRUE,
                   << Line(0, <<13, 0>>), Line(30, <<14, 0>>) >>)
Q_noiface  == File(Name(<<"eth0">>, QPERF_PATTERN, <<1,2,0,0,0,0>>, ".txt"), TRUE,
                   << Line(0, <<15, 0>>) >>)
Q_badfloat == File(Name(<<"wlan1">>, QPERF_PATTERN, <<0,6,0,0,0,0>>, ".txt"), TRUE,
                   << Line(0, <<16, 0>>), Line(1, <<1, 2, 3>>) >>)
Q_unreadable == File(Name(<<"wlan0">>, QPERF_PATTERN, <<1,8,0,0,0,0>>, ".txt"), FALSE,
                   << Line(0, <<17, 0>>) >>)
Q_nopattern == File(Name(<<"wlan0">>, <<"notes">>, <<1,2,0,0,0,0>>, ".txt"), TRUE,
                   << Line(0, <<18, 0>>) >>)

QPERF_FILES == {Q_example, Q_midnight, Q_both, Q_noiface, Q_badfloat, Q_unreadable, Q_nopattern}

\* iperf3 result files
I_example  == File(Name(<<"wlan1">>, IPERF_PATTERN, <<1,2,0,0,0,0>>, ".json"), TRUE,
                   Json(GoodTime, List(<< Interval(Num(0), Num(100000000)) >>)))
I_negative == File(Name(<<"wlan0">>, IPERF_PATTERN, <<0,0,0,0,1,0>>, ".json"), TRUE,
                   Json(NoTime, List(<< Interval(Num(-100), Num(20000000)),
                                        Interval(Num(0), Num(30000000)) >>)))
I_numtime  == File(Name(<<"wlan1">>, IPERF_PATTERN, <<1,8,0,0,0,0>>, ".json"), TRUE,
                   Json(NumTime, List(<< Interval(Num(0), Num(40000000)) >>)))
I_badsecond == File(Name(<<"wlan0">>, IPERF_PATTERN, <<1,2,0,0,0,0>>, ".json"), TRUE,
                   Json(BadTime, List(<< Interval(Num(0), Num(50000000)),
                                         Interval(Str(0), Num(60000000)),
                                         Interval(Num(1), Num(65000000)) >>)))
I_badbps   == File(Name(<<"wlan1">>, IPERF_PATTERN, <<0,0,0,0,0,0>>, ".json"), TRUE,
                   Json(GoodTime, List(<< Interval(Num(0), Num(70000000)),
                                          Interval(Num(1), Str(0)) >>)))
I_noiface  == File(Name(<<"eth0">>, IPERF_PATTERN, <<0,6,0,0,0,0>>, ".json"), TRUE,
                   Json(GoodTime, List(<< Interval(Num(0), Num(80000000)) >>)))
I_nopattern == File(Name(<<"wlan0">>, <<"notes">>, <<0,6,0,0,0,0>>, ".json"), TRUE,
                   Json(GoodTime, List(<< Interval(Num(0), Num(90000000)) >>)))
I_badname  == File(Name(<<"wlan0">>, IPERF_PATTERN, <<2,4,6,0,0,0>>, ".json"), TRUE,
                   Json(GoodTime, List(<< Interval(Num(0), Num(95000000)) >>)))

IPERF_FILES == {I_example, I_negative, I_numtime, I_badsecond, I_badbps, I_noiface,
                I_nopattern, I_badname}

Files(tool) == IF tool = "qperf" THEN QPERF_FILES ELSE IPERF_FILES
Pattern(tool) == IF tool = "qperf" THEN QPERF_PATTERN ELSE IPERF_PATTERN

\* what os.listdir can return: up to MaxFiles distinct entries, in any order
Listings(S) ==
    UNION { { l \in [1..n -> S] : \A a, b \in 1..n : a # b => l[a] # l[b] } : n \in 0..MaxFiles }

\* names and contents a parser is handed on its own
BadNames(pattern, e) ==
    { Name(<<"wlan0">>, pattern, <<2,4,6,0,0,0>>, e),
      Name(<<"wlan0">>, pattern, <<1,2,6,0,0,0>>, e),
      Name(<<"wlan0">>, pattern, <<1,2,0,0,6,0>>, e),
      Name(<<"wlan0">>, pattern, <<1,2,0,0,0,0>>, ".log"),
      Words(<<"wlan0">>) \o Words(pattern) \o << [w |-> "final", d |-> <<>>, ext |-> e] >>,
      Words(<<"wlan0">>) \o Words(pattern) \o << Dt(<<2,0,2,5,1,3,0,5>>), Tm(<<1,2,0,0,0,0>>, e) >>,
      Words(<<"wlan0">>) \o Words(pattern) \o << Dt(<<2,0,2,5,0,2,3,0>>), Tm(<<1,2,0,0,0,0>>, e) >>,
      << [w |-> "results", d |-> <<>>, ext |-> e] >> }

QPERF_NAMES == { f.name : f \in QPERF_FILES } \cup BadNames(QPERF_PATTERN, ".txt")
QPERF_CONTENTS == { f.content : f \in QPERF_FILES } \cup { <<>>, << Noise >> }

IPERF_NAMES == { f.name : f \in IPERF_FILES } \cup BadNames(IPERF_PATTERN, ".json")
IPERF_INTERVALS ==
    { f.content.intervals : f \in IPERF_FILES }
    \cup { NoList, List(<<>>),
           List(<< Interval(Num(0), Num(10000000)), Interval(Absent, Num(20000000)) >>),
           List(<< Interval(Num(0), Num(10000000)), Interval(Num(1), Absent) >>) }
IPERF_CONTENTS ==
    { Json(t, i) : t \in {NoTime, GoodTime, BadTime, NumTime}, i \in IPERF_INTERVALS }
    \cup { NotJson }

ParserInputs ==
    { [tool |-> "qperf", file |-> File(n, r, c)] :
          n \in QPERF_NAMES, r \in BOOLEAN, c \in QPERF_CONTENTS }
    \cup { [tool |-> "iperf", file |-> File(n, r, c)] :
          n \in IPERF_NAMES, r \in BOOLEAN, c \in IPERF_CONTENTS }

\* values calc_stats is handed on its own, tenths of Mbps
STAT_VALUES == {0, 5, 55, 500, 600}
ValueLists == UNION { [1..n -> STAT_VALUES] : n \in 0..MaxVals }

\* values get_time_section is handed on its own: around midnight and around
\* every six-hour boundary, one day and the edges of its neighbours
Probes == { k * 21600 + d : k \in 0..4, d \in (0 - Delta)..Delta }

----------------------------------------------------------------------------
(* State *)

NoRet == Returned(None, <<>>)
NoStats == calc_stats(<<>>)
NoFile == [tool |-> "none", file |-> File(<<>>, FALSE, <<>>)]

PipelineIdle ==
    /\ listing = <<>> /\ idx = 0 /\ ret = NoRet
    /\ data = EmptyData /\ qperf_data = EmptyData /\ iperf_data = EmptyData
    /\ table = <<>> /\ csv = <<>> /\ log = <<>> /\ exit_code = -1

FunctionsIdle ==
    /\ seconds_since_midnight = 0 /\ section = "unset"
    /\ values = <<>> /\ stats = NoStats
    /\ filepath = NoFile /\ parsed = NoRet

\* main starts, line 140
Init ==
    /\ stage = "qperf" /\ pc = "listdir"
    /\ PipelineIdle /\ FunctionsIdle

Diagnostic(who, filename, e) == [who |-> who, file |-> filename, error |-> e]

\* an exception no handler catches: traceback, interpreter exit status 1
Uncaught ==
    /\ stage' = "exit" /\ pc' = "traceback" /\ exit_code' = 1

\* line 86, os.listdir(directory) on a directory that exists
ListDir ==
    /\ stage \in {"qperf", "iperf"} /\ pc = "listdir"
    /\ \E l \in Listings(Files(stage)) : listing' = l
    /\ idx' = 1 /\ data' = EmptyData /\ pc' = "loop"
    /\ UNCHANGED <<stage, ret, qperf_data, iperf_data, table, csv, log, exit_code>>
    /\ UNCHANGED function_vars

\* line 86, os.listdir(directory) on a missing directory: FileNotFoundError,
\* which neither process_files nor main catches
ListDirMissing ==
    /\ stage \in {"qperf", "iperf"} /\ pc = "listdir"
    /\ Uncaught
    /\ UNCHANGED <<listing, idx, ret, data, qperf_data, iperf_data, table, csv, log>>
    /\ UNCHANGED function_vars

\* line 87, an entry without the pattern
SkipFile ==
    /\ stage \in {"qperf", "iperf"} /\ pc = "loop" /\ idx <= Len(listing)
    /\ ~Contains(listing[idx].name, Pattern(stage))
    /\ idx' = idx + 1
    /\ UNCHANGED <<stage, pc, listing, ret, data, qperf_data, iperf_data, table, csv, log, exit_code>>
    /\ UNCHANGED function_vars

\* lines 87-89, the call of parse_func
ParseFile ==
    /\ stage \in {"qperf", "iperf"} /\ pc = "loop" /\ idx <= Len(listing)
    /\ Contains(listing[idx].name, Pattern(stage))
    /\ ret' = parse_func(stage, listing[idx])
    /\ log' = IF ret'.error # ""
              THEN Append(log, Diagnostic(stage, listing[idx].name, ret'.error))
              ELSE log
    /\ pc' = "parsed"
    /\ UNCHANGED <<stage, listing, idx, data, qperf_data, iperf_data, table, csv, exit_code>>
    /\ UNCHANGED function_vars

\* lines 90-101, the rest of the loop body
RouteFile ==
    /\ stage \in {"qperf", "iperf"} /\ pc = "parsed"
    /\ LET r == route_file(data, listing[idx].name, ret)
       IN  /\ r.exc = ""
           /\ data' = r.val
    /\ idx' = idx + 1 /\ pc' = "loop" /\ ret' = NoRet
    /\ UNCHANGED <<stage, listing, qperf_data, iperf_data, table, csv, log, exit_code>>
    /\ UNCHANGED function_vars

\* lines 96-98 raise out of process_files and out of main
RouteFileRaises ==
    /\ stage \in {"qperf", "iperf"} /\ pc = "parsed"
    /\ LET r == route_file(data, listing[idx].name, ret)
       IN  /\ r.exc # ""
           /\ data' = r.val
    /\ Uncaught
    /\ UNCHANGED <<listing, idx, ret, qperf_data, iperf_data, table, csv, log>>
    /\ UNCHANGED function_vars

\* line 102 and the assignments at lines 142-143
ReturnData ==
    /\ stage \in {"qperf", "iperf"} /\ pc = "loop" /\ idx > Len(listing)
    /\ IF stage = "qperf"
       THEN qperf_data' = data /\ stage' = "iperf" /\ pc' = "listdir"
            /\ UNCHANGED iperf_data
       ELSE iperf_data' = data /\ stage' = "table" /\ pc' = "call"
            /\ UNCHANGED qperf_data
    /\ listing' = <<>> /\ idx' = 0 /\ data' = EmptyData
    /\ UNCHANGED <<ret, table, csv, log, exit_code>>
    /\ UNCHANGED function_vars

\* line 146, print_table
PrintTable ==
    /\ stage = "table"
    /\ table' = report_rows(qperf_data, iperf_data)
    /\ stage' = "csv"
    /\ UNCHANGED <<pc, listing, idx, ret, data, qperf_data, iperf_data, csv, log, exit_code>>
    /\ UNCHANGED function_vars

\* line 149, save_to_csv when the file can be written; main returns
SaveToCsv ==
    /\ stage = "csv"
    /\ csv' = report_rows(qperf_data, iperf_data)
    /\ stage' = "exit" /\ pc' = "returned" /\ exit_code' = 0
    /\ UNCHANGED <<listing, idx, ret, data, qperf_data, iperf_data, table, log>>
    /\ UNCHANGED function_vars

\* line 149, save_to_csv when open fails: lines 137-138; main returns
SaveToCsvFails ==
    /\ stage = "csv"
    /\ log' = Append(log, Diagnostic("csv", <<>>, "OSError"))
    /\ stage' = "exit" /\ pc' = "returned" /\ exit_code' = 0
    /\ UNCHANGED <<listing, idx, ret, data, qperf_data, iperf_data, table, csv>>
    /\ UNCHANGED function_vars

Next ==
    \/ ListDir \/ ListDirMissing \/ SkipFile \/ ParseFile
    \/ RouteFile \/ RouteFileRaises \/ ReturnData
    \/ PrintTable \/ SaveToCsv \/ SaveToCsvFails

Spec == Init /\ [][Next]_vars

----------------------------------------------------------------------------
(* The parsers on their own *)

InitParse ==
    /\ stage = "parse" /\ pc = "call"
    /\ PipelineIdle
    /\ seconds_since_midnight = 0 /\ section = "unset"
    /\ values = <<>> /\ stats = NoStats
    /\ filepath \in ParserInputs /\ parsed = NoRet

CallParser ==
    /\ stage = "parse" /\ pc = "call"
    /\ parsed' = parse_func(filepath.tool, filepath.file)
    /\ pc' = "done"
    /\ UNCHANGED <<stage, listing, idx, ret, data, qperf_data, iperf_data, table, csv, log, exit_code>>
    /\ UNCHANGED <<seconds_since_midnight, section, values, stats, filepath>>

NextParse == CallParser

SpecParse == InitParse /\ [][NextParse]_vars

(* get_time_section on its own *)

InitSection ==
    /\ stage = "get_time_section" /\ pc = "call"
    /\ PipelineIdle
    /\ seconds_since_midnight \in Probes /\ section = "unset"
    /\ values = <<>> /\ stats = NoStats
    /\ filepath = NoFile /\ parsed = NoRet

CallGetTimeSection ==
    /\ stage = "get_time_section" /\ pc = "call"
    /\ section' = get_time_section(seconds_since_midnight)
    /\ pc' = "done"
    /\ UNCHANGED <<stage, listing, idx, ret, data, qperf_data, iperf_data, table, csv, log, exit_code>>
    /\ UNCHANGED <<seconds_since_midnight, values, stats, filepath, parsed>>

NextSection == CallGetTimeSection

SpecSection == InitSection /\ [][NextSection]_vars

(* calc_stats on its own *)

InitStats ==
    /\ stage = "calc_stats" /\ pc = "call"
    /\ PipelineIdle
    /\ seconds_since_midnight = 0 /\ section = "unset"
    /\ values \in ValueLists /\ stats = NoStats
    /\ filepath = NoFile /\ parsed = NoRet

CallCalcStats ==
    /\ stage = "calc_stats" /\ pc = "call"
    /\ stats' = calc_stats(values)
    /\ pc' = "done"
    /\ UNCHANGED <<stage, listing, idx, ret, data, qperf_data, iperf_data, table, csv, log, exit_code>>
    /\ UNCHANGED <<seconds_since_midnight, section, values, filepath, parsed>>

NextStats == CallCalcStats

SpecStats == InitStats /\ [][NextStats]_vars

----------------------------------------------------------------------------
(* Vocabulary of the properties *)

InProcessFiles == stage \in {"qperf", "iperf"} /\ pc \in {"loop", "parsed"}

\* process_files has gone through the whole listing and is about to return data
LoopDone == stage \in {"qperf", "iperf"} /\ pc = "loop" /\ idx > Len(listing)

Listed == { listing[k] : k \in 1..Len(listing) }

\* how many times v occurs in bucket (i, l), and in all buckets
Occurrences(d, i, l, v) == Cardinality({ k \in 1..Len(d[i][l]) : d[i][l][k] = v })

RECURSIVE SumOver(_, _)
SumOver(f, S) == IF S = {} THEN 0
                 ELSE LET x == CHOOSE y \in S : TRUE IN f[x] + SumOver(f, S \ {x})

Total(d, v) ==
    SumOver([b \in {"wlan0", "wlan1"} \X LABELS |-> Occurrences(d, b[1], b[2], v)],
            {"wlan0", "wlan1"} \X LABELS)

\* every throughput value written in a file, whether or not its parse succeeds
FileValues(tool, f) ==
    IF tool = "qperf"
    THEN { float(f.content[k].mbit).val :
             k \in { j \in 1..Len(f.content) :
                       f.content[j].match /\ float(f.content[j].mbit).exc = "" } }
    ELSE { f.content.intervals.v[k].bits_per_second.v \div 100000 :
             k \in { j \in 1..Len(f.content.intervals.v) :
                       f.content.intervals.v[j].bits_per_second.t = "num" } }

\* start-time.hour*3600 + start-time.minute*60 + start-time.second + offset
Ssm(r, k) ==
    r.start_time.hour * 3600 + r.start_time.minute * 60 + r.start_time.second
        + r.throughputs[k].second.v

Within(x, l) ==
    \E k \in 1..Len(TIME_SECTIONS) :
        /\ TIME_SECTIONS[k].label = l
        /\ TIME_SECTIONS[k].start <= x /\ x <= TIME_SECTIONS[k].end

HasInterface(name) == Contains(name, <<"wlan0">>) \/ Contains(name, <<"wlan1">>)

\* a file process_files parses with success and routes to an interface
Eligible(tool, f) ==
    /\ Contains(f.name, Pattern(tool))
    /\ HasInterface(f.name)
    /\ parse_func(tool, f).start_time # None

NumericSeconds(r) == \A k \in 1..Len(r.throughputs) : r.throughputs[k].second.t = "num"

\* a bad file in the sense of the error taxonomy: its parse fails, or one of
\* its offsets is not a number
BadFile(tool, f) ==
    \/ parse_func(tool, f).start_time = None
    \/ ~NumericSeconds(parse_func(tool, f))

AbortedInLoop == stage = "exit" /\ pc = "traceback" /\ idx >= 1

----------------------------------------------------------------------------
(* C1: process_files is never aborted by a bad file: it returns normally,   *)
(* no value of a bad file is in any bucket, and the buckets are those of    *)
(* the same listing without the bad files.                                  *)

RECURSIVE Without(_, _, _)
Without(tool, files, i) ==
    IF i > Len(files) THEN <<>>
    ELSE IF BadFile(tool, files[i]) THEN Without(tool, files, i + 1)
    ELSE << files[i] >> \o Without(tool, files, i + 1)

C1_BadFileNeverAborts ==
    /\ ~AbortedInLoop
    /\ LoopDone =>
         /\ \A f \in Listed : BadFile(stage, f) =>
                \A v \in FileValues(stage, f) : Total(data, v) = 0
         /\ data = process_listing(EmptyData, stage, Pattern(stage),
                                   Without(stage, listing, 1), 1).val

----------------------------------------------------------------------------
(* C2: for every second s of the day, 0 <= s <= 86399, get_time_section(s)  *)
(* is the label of the six-hour window floor(s / 21600).                    *)

C2_EverySecondHasItsWindow ==
    (stage = "get_time_section" /\ pc = "done"
        /\ 0 <= seconds_since_midnight /\ seconds_since_midnight <= 86399)
    => section = TIME_SECTIONS[(seconds_since_midnight \div 21600) + 1].label

----------------------------------------------------------------------------
(* C3: main always runs to completion and exits 0, whatever the state of    *)
(* the filesystem: both directories are processed, the table is printed,    *)
(* the CSV is attempted, and no error is left uncaught.                     *)

C3_AlwaysExitsZero ==
    stage = "exit" => (exit_code = 0 /\ pc = "returned" /\ Len(table) = Len(TIME_SECTIONS))

----------------------------------------------------------------------------
(* C4: a parser returns either (start-time, samples) or exactly the failure *)
(* sentinel (None, []); after a failure none of the samples already read    *)
(* from the file is returned.                                               *)

C4_SentinelOrRun ==
    (stage = "parse" /\ pc = "done") =>
        /\ parsed.start_time = None => parsed.throughputs = <<>>
        /\ parsed.error # "" => (parsed.start_time = None /\ parsed.throughputs = <<>>)
        /\ parsed.error = "" =>
              (parsed.start_time # None /\ parsed.start_time.hour \in 0..23
               /\ parsed.start_time.minute \in 0..59 /\ parsed.start_time.second \in 0..59)

\* a qperf file whose second sample line is malformed has been parsed
C4_Witness ==
    /\ stage = "parse" /\ pc = "done"
    /\ filepath = [tool |-> "qperf", file |-> Q_badfloat]
    /\ parsed.error = "ValueError" /\ parsed.throughputs = <<>>

----------------------------------------------------------------------------
(* C5: every value in bucket (interface, section) comes from a listed file  *)
(* whose name has the filter substring and that interface name, whose parse *)
(* succeeded, and from a sample of it whose seconds-since-midnight, wrapped *)
(* to one day, lies in the section's interval; no value of a file whose     *)
(* parse failed is in any bucket.                                           *)

C5_BucketProvenance ==
    InProcessFiles =>
        /\ \A i \in {"wlan0", "wlan1"}, l \in LABELS : \A k \in 1..Len(data[i][l]) :
             \E f \in Listed :
                /\ Contains(f.name, Pattern(stage))
                /\ Contains(f.name, <<i>>)
                /\ parse_func(stage, f).start_time # None
                /\ \E j \in 1..Len(parse_func(stage, f).throughputs) :
                      /\ parse_func(stage, f).throughputs[j].throughput = data[i][l][k]
                      /\ parse_func(stage, f).throughputs[j].second.t = "num"
                      /\ Within(Ssm(parse_func(stage, f), j) % 86400, l)
        /\ \A f \in Listed : parse_func(stage, f).start_time = None =>
             \A v \in FileValues(stage, f) : Total(data, v) = 0

\* the example run is bucketed next to a file whose parse failed and a file
\* without interface
C5_Witness ==
    /\ LoopDone /\ stage = "qperf"
    /\ Q_example \in Listed /\ (Q_badfloat \in Listed \/ Q_noiface \in Listed)
    /\ data["wlan0"]["0h-5h59"] = <<500, 600>>

----------------------------------------------------------------------------
(* C6: seconds-since-midnight is never wrapped: a sample at 86400 or later, *)
(* or at a negative value, is added to no bucket, while the earlier samples *)
(* of the same run, those before midnight, are still bucketed.              *)

C6_LateSampleDroppedEarlierKept ==
    LoopDone =>
        \A f \in Listed :
            (Eligible(stage, f) /\ NumericSeconds(parse_func(stage, f))) =>
                LET r == parse_func(stage, f)
                    late(k) == Ssm(r, k) >= 86400 \/ Ssm(r, k) < 0
                IN  \A k \in 1..Len(r.throughputs) :
                       /\ late(k) => Total(data, r.throughputs[k].throughput) = 0
                       /\ Ssm(r, k) >= 86400 =>
                            \A j \in 1..(k - 1) :
                               (0 <= Ssm(r, j) /\ Ssm(r, j) < 86400) =>
                                   Total(data, r.throughputs[j].throughput) = 1

----------------------------------------------------------------------------
(* C7: a file named with wlan0 (with or without wlan1) contributes only to  *)
(* wlan0 buckets, a file named with wlan1 and not wlan0 only to wlan1       *)
(* buckets, a file named with neither to no bucket.                         *)

InInterface(d, i, v) == \E l \in LABELS : Occurrences(d, i, l, v) > 0

C7_InterfaceRouting ==
    InProcessFiles =>
        \A f \in Listed : \A v \in FileValues(stage, f) :
            /\ Contains(f.name, <<"wlan0">>) => ~InInterface(data, "wlan1", v)
            /\ (Contains(f.name, <<"wlan1">>) /\ ~Contains(f.name, <<"wlan0">>))
                   => ~InInterface(data, "wlan0", v)
            /\ ~HasInterface(f.name) => (~InInterface(data, "wlan0", v) /\ ~InInterface(data, "wlan1", v))

\* a file named with both interfaces and a file named with wlan1 alone have
\* both been bucketed
C7_Witness ==
    /\ LoopDone /\ stage = "qperf"
    /\ Q_both \in Listed /\ Q_midnight \in Listed
    /\ InInterface(data, "wlan0", 140) /\ InInterface(data, "wlan1", 75)

----------------------------------------------------------------------------
(* C8: in parse_iperf_file the start time of a parsed file is the filename  *)
(* timestamp whether the embedded time field is valid, absent or malformed: *)
(* the embedded field never changes the result, and a malformed filename    *)
(* timestamp gives the failure sentinel.                                    *)

WithTime(f, t) == [f EXCEPT !.content.time = t]

\* what the caller receives, the diagnostic aside
Result(r) == << r.start_time, r.throughputs >>

C8_EmbeddedTimeNeverMatters ==
    (stage = "parse" /\ pc = "done" /\ filepath.tool = "iperf"
        /\ filepath.file.readable /\ filepath.file.content.json) =>
        /\ filename_time(filepath.file.name, ".json").exc # "" => parsed.start_time = None
        /\ parsed.start_time # None =>
               parsed.start_time = filename_time(filepath.file.name, ".json").val
        /\ \A t \in {NoTime, GoodTime, BadTime, NumTime} :
               Result(parse_iperf_file(WithTime(filepath.file, t))) = Result(parsed)

----------------------------------------------------------------------------
(* C9: for a non-empty list calc_stats prints mean and standard deviation   *)
(* (n-1 estimator, 0.0 for one value) each with two decimals; for the empty *)
(* list it prints "0.0 ± 0.0".                                              *)

Hundredths(p) == p.whole * 100 + p.frac[1] * 10 + (IF Len(p.frac) > 1 THEN p.frac[2] ELSE 0)

\* h is the mean of vs rounded to hundredths
IsMean(h, vs) ==
    LET d == h * Len(vs) - 10 * sum(vs, 1)
    IN  2 * d <= Len(vs) /\ -2 * d <= Len(vs)

\* h is the n-1 standard deviation of vs rounded to hundredths, 0 for n = 1
IsStddev(h, vs) ==
    LET n == Len(vs)
        num == 100 * (n * sum_sq(vs, 1) - sum(vs, 1) * sum(vs, 1))
        den == n * (n - 1)
    IN  IF n = 1 THEN h = 0
        ELSE /\ h >= 0
             /\ (h > 0 => (2 * h - 1) * (2 * h - 1) * den <= 4 * num)
             /\ 4 * num <= (2 * h + 1) * (2 * h + 1) * den

RightNumbers ==
    /\ IsMean(Hundredths(stats.mean), values)
    /\ IsStddev(Hundredths(stats.stddev), values)

EmptyLiteral ==
    values = <<>> =>
        stats = [mean |-> [whole |-> 0, frac |-> <<0>>], stddev |-> [whole |-> 0, frac |-> <<0>>]]

C9_TwoDecimals ==
    (stage = "calc_stats" /\ pc = "done") =>
        /\ EmptyLiteral
        /\ values # <<>> =>
              /\ RightNumbers
              /\ Len(stats.mean.frac) = 2 /\ Len(stats.stddev.frac) = 2

(* C9 as amended: for a non-empty list calc_stats prints str(round(mean, 2)) *)
(* and str(round(stddev, 2)): each number rounded to two decimals and        *)
(* printed as the shortest float that reads back, with one or two digits     *)
(* after the point and no trailing zero in the second place ("50.0 ± 0.0",   *)
(* "55.0 ± 7.07"); the empty list gives "0.0 ± 0.0".                         *)

Shortest(p) == Len(p.frac) \in {1, 2} /\ (Len(p.frac) = 2 => p.frac[2] # 0)

C9_RoundedShortest ==
    (stage = "calc_stats" /\ pc = "done") =>
        /\ EmptyLiteral
        /\ values # <<>> =>
              /\ RightNumbers
              /\ Shortest(stats.mean) /\ Shortest(stats.stddev)

\* [50.0, 60.0] has been reduced to "55.0 ± 7.07"
C9_Witness ==
    /\ stage = "calc_stats" /\ pc = "done"
    /\ values = <<500, 600>>
    /\ stats = [mean |-> [whole |-> 55, frac |-> <<0>>], stddev |-> [whole |-> 7, frac |-> <<0, 7>>]]

----------------------------------------------------------------------------
(* C10: every sample of every file that is parsed with success and named    *)
(* with the filter substring and an interface is in exactly one bucket,     *)
(* once, when its seconds-since-midnight lies in a section interval, and in *)
(* no bucket otherwise; the intervals do not overlap; files without the     *)
(* filter substring are never parsed; the values of one file reach a bucket *)
(* in file order.                                                           *)

Disjoint ==
    \A a, b \in 1..Len(TIME_SECTIONS) :
        a < b => TIME_SECTIONS[a].end < TIME_SECTIONS[b].start

Position(d, i, l, v) == CHOOSE k \in 1..Len(d[i][l]) : d[i][l][k] = v

====
